---- MODULE Spec2Model ----
(***************************************************************************)
(* Interaction & counter consistency engine of the photo-sharing backend:  *)
(* InteractionService.toggle_like / add_comment / delete_comment on top of *)
(* the Users, Posts and Interactions tables (backend/shared/models.py).    *)
(*                                                                         *)
(* Every store call (get_item, query, put_item, delete_item, update_item)  *)
(* is one atomic step; an invocation is the sequence of its store calls,   *)
(* and invocations interleave freely between calls.  The first store call  *)
(* of an invocation takes time, so the clock advances there; the clock     *)
(* read of Interaction.__init__ is a local step of its own, so concurrent  *)
(* invocations can read the same timestamp while invocations that run one  *)
(* after the other read increasing ones.                                   *)
(***************************************************************************)
EXTENDS Integers, Sequences, FiniteSets, TLC

\* ---------------------------------------------------------------- bounds
MaxInv == 2
MaxTime == 2
MaxRaceTime == 3
MaxSeqTime == 3
MaxBusyTime == 2
MaxReadTime == 3
MaxFailTime == 2
MaxNewUsers == 2
MaxSoloTime == 3
MaxStatusTime == 3

\* ------------------------------------------------------------- constants
DefaultLimit == 50
MaxCommentLen == 500

Inv == 1..MaxInv
RegisteredUsers == {"u1", "u2"}
UserIds == {"u1", "u2", "u9"}
CreatedPosts == {"p1"}
PostIds == {"p1", "p9"}
Whitespace == {" ", "\t", "\n"}
NoneContent == <<"None">>
NoType == "None"
TooLong == [k \in 1..(MaxCommentLen + 1) |-> "a"]
MaxLenContent == [k \in 1..MaxCommentLen |-> "a"]
PaddedMaxLen == <<" ">> \o MaxLenContent \o <<"\n">>
PaddedTooLong == <<"\t">> \o TooLong \o <<" ", " ">>
LenContents == {<<" ", "\t">>, <<"b">>, MaxLenContent, PaddedMaxLen, TooLong, PaddedTooLong}
Contents == {NoneContent, <<>>, <<" ", "\t">>, <<" ", "a", "\t">>, <<"b">>, TooLong}
SomeContents == {<<>>, <<" ", "a", "\t">>, <<"b">>}
BogusId == <<"nonexistent_interaction_id">>
Usernames == {<<"b", "o", "b">>, <<" ", "b", "o", "b">>, <<"a", "n", "n">>, <<"a", "l">>}
Emails == {<<"b", "@", "x">>, <<"B", "@", "x">>, <<"a", "@", "x">>, <<"b", "x">>}
Passwords == {<<"s", "e", "c", "r", "e", "t">>, <<"p", "w">>}
MinUsernameLen == 3
MinPasswordLen == 6
NewIdPool == <<"n1", "n2", "n3", "n4">>
NewUserIds == {NewIdPool[k] : k \in 1..MaxNewUsers}

VARIABLES users, posts, interactions, now, inv, nToggles, deltaSum

vars == <<users, posts, interactions, now, inv, nToggles, deltaSum>>

\* ---------------------------------------------------------- pure helpers
SetMin(S) == CHOOSE x \in S : \A y \in S : x <= y
SetMax(S) == CHOOSE x \in S : \A y \in S : x >= y

\* str.strip(): drop leading and trailing whitespace, keep the inside
RECURSIVE FirstKept(_, _)
FirstKept(s, k) ==
    IF k > Len(s) THEN k
    ELSE IF s[k] \in Whitespace THEN FirstKept(s, k + 1) ELSE k

RECURSIVE LastKept(_, _)
LastKept(s, k) ==
    IF k < 1 THEN k
    ELSE IF s[k] \in Whitespace THEN LastKept(s, k - 1) ELSE k

Strip(s) ==
    IF FirstKept(s, 1) > Len(s) THEN <<>>
    ELSE SubSeq(s, FirstKept(s, 1), LastKept(s, Len(s)))

\* begins_with(interaction_id, prefix) on '#'-separated identifiers
BeginsWith(id, prefix) ==
    /\ Len(prefix) <= Len(id)
    /\ SubSeq(id, 1, Len(prefix)) = prefix

\* string order of the sort key "{type}#{user_id}#{timestamp}"
TypeRank(t) == IF t = "comment" THEN 1 ELSE 2
UserRank(u) == IF u = "u1" THEN 1 ELSE IF u = "u2" THEN 2 ELSE 3
IdLess(a, b) ==
    \/ TypeRank(a[1]) < TypeRank(b[1])
    \/ a[1] = b[1] /\ UserRank(a[2]) < UserRank(b[2])
    \/ a[1] = b[1] /\ a[2] = b[2] /\ a[3] < b[3]

\* ------------------------------------------------------------ User model
\* the User item of a registered account: username and email as given at
\* registration (models.py lines 62-68)
NewUser(username, email) == [username |-> username, email |-> email]

\* the accounts that exist before the run, keyed by user_id
InitialUsers ==
    [u \in RegisteredUsers |-> NewUser(<<"u", "s", "r", u>>, <<u, "@", "x">>)]

\* User.get_by_id: {} when the item is absent, else the one loaded instance
UserGetById(u) == IF u \in DOMAIN users THEN {users[u]} ELSE {}

\* ------------------------------------------------------------ Post model
NewPost(owner) == [user_id |-> owner, likes_count |-> 0, comments_count |-> 0]

\* get_by_id that builds an instance also when the response holds no Item
PostGetByIdAlways(p) == IF p \in DOMAIN posts THEN {posts[p]} ELSE {NewPost("")}

\* Post.get_by_id: {} when the item is absent, else the one loaded instance
PostGetById(p) == IF p \in DOMAIN posts THEN {posts[p]} ELSE {}

\* table.update_item(... "ADD likes_count :l, comments_count :c"): the store
\* adds the deltas to the item's current values (creating what is missing)
UpdateItemAdd(tbl, p, likes_delta, comments_delta) ==
    IF p \in DOMAIN tbl
    THEN [tbl EXCEPT ![p].likes_count = @ + likes_delta,
                     ![p].comments_count = @ + comments_delta]
    ELSE [q \in DOMAIN tbl \cup {p} |->
            IF q = p
            THEN [user_id |-> "", likes_count |-> likes_delta,
                  comments_count |-> comments_delta]
            ELSE tbl[q]]

\* update_counts done as a read-modify-write of the instance's own counters
UpdateCountsFromInstance(tbl, self, p, likes_delta, comments_delta) ==
    [q \in DOMAIN tbl \cup {p} |->
        IF q = p
        THEN [self EXCEPT !.likes_count = @ + likes_delta,
                          !.comments_count = @ + comments_delta]
        ELSE tbl[q]]

\* Post.update_counts, its effect on the table: the deltas are added by the
\* store, whatever the calling instance last read (models.py lines 391-401)
UpdateCounts(tbl, self, p, likes_delta, comments_delta) ==
    UpdateItemAdd(tbl, p, likes_delta, comments_delta)

\* the instance attributes after Post.update_counts
LocalAfterUpdate(post, likes_delta, comments_delta) ==
    [post EXCEPT !.likes_count = @ + likes_delta,
                 !.comments_count = @ + comments_delta]

\* ----------------------------------------------------- Interaction model
\* Interaction.__init__: created_at is the clock reading, the id is
\* {type}#{user_id}#{created_at}
NewInteraction(p, u, type, content, ts) ==
    [post_id |-> p, interaction_id |-> <<type, u, ts>>, user_id |-> u,
     interaction_type |-> type, content |-> content, created_at |-> ts]

\* table.put_item: replaces the item holding the same composite key
PutItem(tbl, item) ==
    {r \in tbl : ~(r.post_id = item.post_id
                   /\ r.interaction_id = item.interaction_id)} \cup {item}

\* table.delete_item by composite key
DeleteItem(tbl, p, id) ==
    {r \in tbl : ~(r.post_id = p /\ r.interaction_id = id)}

\* the items of a set in sort-key order: an item's place is the number of
\* items with a smaller key (keys are unique within a table)
KeyRank(S, x) ==
    Cardinality({y \in S : IdLess(y.interaction_id, x.interaction_id)})

SortByKey(S) ==
    LET placed == {<<KeyRank(S, x), x>> : x \in S}
    IN  [k \in 1..Cardinality(S) |-> (CHOOSE pr \in placed : pr[1] = k - 1)[2]]

FirstN(s, n) == IF Len(s) <= n THEN s ELSE SubSeq(s, 1, n)

\* table.query(KeyCondition post_id = p, Limit, FilterExpression type):
\* Limit bounds the items read in key order, the filter applies afterwards
GetPostInteractions(p, type, limit) ==
    LET part == SortByKey({r \in interactions : r.post_id = p})
    IN  SelectSeq(FirstN(part, limit),
                  LAMBDA r : type = NoType \/ r.interaction_type = type)

\* get_user_like with a prefix no stored id begins with
GetUserLikeBadPrefix(p, u) ==
    LET part == SortByKey({r \in interactions :
                    r.post_id = p /\ BeginsWith(r.interaction_id, <<"likes", u>>)})
    IN  IF part = <<>> THEN {} ELSE {part[1]}

\* get_user_like with the user left out of the prefix
GetUserLikeAnyUser(p, u) ==
    LET part == SortByKey({r \in interactions :
                    r.post_id = p /\ BeginsWith(r.interaction_id, <<"like">>)})
    IN  IF part = <<>> THEN {} ELSE {part[1]}

\* Interaction.get_user_like: first item whose id begins with like#{user}#
GetUserLike(p, u) ==
    LET part == SortByKey({r \in interactions :
                    r.post_id = p /\ BeginsWith(r.interaction_id, <<"like", u>>)})
    IN  IF part = <<>> THEN {} ELSE {part[1]}

\* a status that is true when anybody likes the post
GetUserLikeStatusAnyUser(u, p) == GetUserLikeAnyUser(p, u) # {}

\* InteractionService.get_user_like_status
GetUserLikeStatus(u, p) == GetUserLike(p, u) # {}

\* ------------------------------------------------------------ invocations
IdleInv ==
    [pc |-> "idle", op |-> "none", user_id |-> "", post_id |-> "",
     content |-> <<>>, interaction_id |-> <<>>, post |-> {},
     username |-> <<>>, email |-> <<>>,
     limit |-> 0, existing_like |-> {}, like |-> {}, obj |-> {},
     interactions_left |-> <<>>, fetched |-> <<>>, result |-> {}]

TheOne(S) == CHOOSE x \in S : TRUE

\* a fresh invocation of op with its arguments
Call(op, u, p, c, id) ==
    [IdleInv EXCEPT !.op = op, !.user_id = u, !.post_id = p,
                    !.content = c, !.interaction_id = id]

\* the invocation has returned or raised: its locals are gone, the caller
\* holds the outcome
Finish(call, res) ==
    [Call(call.op, call.user_id, call.post_id, call.content, call.interaction_id)
        EXCEPT !.username = call.username, !.email = call.email,
               !.limit = call.limit, !.pc = "done", !.result = {res}]

InFlight(i) == inv[i].pc \notin {"idle", "done"}
Free(i) == ~InFlight(i)
\* invocations are interchangeable: a new one takes the first free slot
FirstFree(i) == Free(i) /\ \A j \in Inv : j < i => InFlight(j)
NoneInFlight == \A i \in Inv : Free(i)

Init ==
    /\ users = InitialUsers
    /\ posts = [p \in CreatedPosts |-> NewPost("u1")]
    /\ interactions = {}
    /\ now = 0
    /\ inv = [i \in Inv |-> IdleInv]
    /\ nToggles = [u \in UserIds |-> [p \in PostIds |-> 0]]
    /\ deltaSum = [p \in PostIds |-> [likes |-> 0, comments |-> 0]]

\* ------------------------------------------------------------ toggle_like
\* invocation and Post.get_by_id (interaction_service.py line 24)
ToggleLikeGetPost(i, u, p) ==
    /\ FirstFree(i)
    /\ now' = now + 1
    /\ inv' = [inv EXCEPT ![i] =
          IF PostGetById(p) = {}
          THEN Finish(Call("toggle_like", u, p, <<>>, <<>>),
                      [status |-> "NotFound", what |-> "post"])
          ELSE [Call("toggle_like", u, p, <<>>, <<>>)
                  EXCEPT !.pc = "tl_get_user_like", !.post = PostGetById(p)]]
    /\ UNCHANGED <<users, posts, interactions, nToggles, deltaSum>>

\* existing_like = Interaction.get_user_like(post_id, user_id) (line 29)
ToggleLikeGetUserLike(i) ==
    /\ inv[i].pc = "tl_get_user_like"
    /\ LET found == GetUserLike(inv[i].post_id, inv[i].user_id)
       IN  inv' = [inv EXCEPT ![i].existing_like = found,
                              ![i].pc = IF found # {} THEN "tl_delete_like_find"
                                                      ELSE "tl_new_like"]
    /\ UNCHANGED <<users, posts, interactions, now, nToggles, deltaSum>>

\* Interaction.delete_like, its lookup (models.py line 554)
DeleteLikeFind(i) ==
    /\ inv[i].pc = "tl_delete_like_find"
    /\ LET found == GetUserLike(inv[i].post_id, inv[i].user_id)
       IN  inv' = [inv EXCEPT ![i].like = found,
                              ![i].pc = IF found # {} THEN "tl_delete_item"
                                                      ELSE "tl_update"]
    /\ UNCHANGED <<users, posts, interactions, now, nToggles, deltaSum>>

\* Interaction.delete_like, its delete_item (models.py line 559)
DeleteLikeItem(i) ==
    /\ inv[i].pc = "tl_delete_item"
    /\ interactions' = DeleteItem(interactions, inv[i].post_id,
                                  TheOne(inv[i].like).interaction_id)
    /\ inv' = [inv EXCEPT ![i].pc = "tl_update"]
    /\ UNCHANGED <<users, posts, now, nToggles, deltaSum>>

\* like = Interaction(post_id, user_id, 'like') (line 44)
ToggleLikeNew(i) ==
    /\ inv[i].pc = "tl_new_like"
    /\ inv' = [inv EXCEPT
          ![i].obj = {NewInteraction(inv[i].post_id, inv[i].user_id, "like", <<>>, now)},
          ![i].pc = "tl_save"]
    /\ UNCHANGED <<users, posts, interactions, now, nToggles, deltaSum>>

\* like.save() (line 49)
ToggleLikeSave(i) ==
    /\ inv[i].pc = "tl_save"
    /\ interactions' = PutItem(interactions, TheOne(inv[i].obj))
    /\ inv' = [inv EXCEPT ![i].pc = "tl_update"]
    /\ UNCHANGED <<users, posts, now, nToggles, deltaSum>>

\* an unlike that counts up like a like
LikesDeltaAlwaysUp(unlike) == IF unlike THEN 1 ELSE 1

\* the likes_delta of the branch taken (lines 34, 50)
LikesDelta(unlike) == IF unlike THEN -1 ELSE 1

\* the count toggle_like hands back: the instance attribute (lines 39, 55)
ReturnedLikes(local, stored) == local.likes_count

\* post.update_counts(likes_delta=+-1) and the return value (lines 34-41, 50-57)
ToggleLikeUpdate(i) ==
    /\ inv[i].pc = "tl_update"
    /\ LET unlike == inv[i].existing_like # {}
           delta == LikesDelta(unlike)
           p == inv[i].post_id
           u == inv[i].user_id
           local == LocalAfterUpdate(TheOne(inv[i].post), delta, 0)
       IN  /\ posts' = UpdateCounts(posts, TheOne(inv[i].post), p, delta, 0)
           /\ inv' = [inv EXCEPT ![i] =
                 Finish(inv[i], [status |-> "ok", liked |-> ~unlike,
                                 likes_count |-> ReturnedLikes(local, posts'[p])])]
           /\ nToggles' = [nToggles EXCEPT ![u][p] = @ + 1]
           /\ deltaSum' = [deltaSum EXCEPT ![p].likes = @ + delta]
    /\ UNCHANGED <<users, interactions, now>>

\* ------------------------------------------------------------ add_comment
\* the length limit applied to the content as given, not to the trimmed one
ValidateContentUntrimmed(c) ==
    IF c = NoneContent \/ c = <<>> \/ Strip(c) = <<>>
    THEN "required"
    ELSE IF Len(c) > MaxCommentLen THEN "too_long" ELSE ""

\* the two input checks of lines 68-73: "" when the content passes
ValidateContent(c) ==
    LET trimmed_content == Strip(c)
    IN  IF c = NoneContent \/ c = <<>> \/ trimmed_content = <<>>
        THEN "required"
        ELSE IF Len(trimmed_content) > MaxCommentLen THEN "too_long" ELSE ""

\* the post looked up before the content is validated
AddCommentChecksPostFirst(c, p) ==
    IF PostGetById(p) = {}
    THEN {[status |-> "NotFound", what |-> "post"]}
    ELSE IF ValidateContent(c) # ""
    THEN {[status |-> "Validation", what |-> ValidateContent(c)]}
    ELSE {}

\* the checks of lines 68-78 in their order: the error raised, {} when none
AddCommentChecks(c, p) ==
    LET invalid == ValidateContent(c)
    IN  IF invalid # ""
        THEN {[status |-> "Validation", what |-> invalid]}
        ELSE IF PostGetById(p) = {}
        THEN {[status |-> "NotFound", what |-> "post"]}
        ELSE {}

\* invocation, input validation and Post.get_by_id (lines 68-78); a rejected
\* input raises before any store call is made
AddCommentGetPost(i, u, p, c) ==
    /\ FirstFree(i)
    /\ LET call == Call("add_comment", u, p, c, <<>>)
           raised == AddCommentChecks(c, p)
       IN  /\ inv' = [inv EXCEPT ![i] =
                 IF raised # {}
                 THEN Finish(call, TheOne(raised))
                 ELSE [call EXCEPT !.pc = "ac_get_user", !.post = PostGetById(p)]]
           /\ now' = IF raised # {} /\ TheOne(raised).status = "Validation"
                     THEN now ELSE now + 1
    /\ UNCHANGED <<users, posts, interactions, nToggles, deltaSum>>

\* comments_count incremented ahead of the user check
AddCommentGetUserCountsFirst(i) ==
    /\ inv[i].pc = "ac_get_user"
    /\ posts' = UpdateItemAdd(posts, inv[i].post_id, 0, 1)
    /\ inv' = [inv EXCEPT ![i] =
          IF UserGetById(inv[i].user_id) # {}
          THEN [@ EXCEPT !.pc = "ac_new_comment"]
          ELSE Finish(@, [status |-> "NotFound", what |-> "user"])]
    /\ UNCHANGED <<users, interactions, now, nToggles, deltaSum>>

\* user = User.get_by_id(user_id) (lines 81-83)
AddCommentGetUser(i) ==
    /\ inv[i].pc = "ac_get_user"
    /\ inv' = [inv EXCEPT ![i] =
          IF UserGetById(inv[i].user_id) # {}
          THEN [@ EXCEPT !.pc = "ac_new_comment"]
          ELSE Finish(@, [status |-> "NotFound", what |-> "user"])]
    /\ UNCHANGED <<users, posts, interactions, now, nToggles, deltaSum>>

\* the content add_comment stores: trimmed_content (lines 71, 90)
StoredContent(c) == Strip(c)

\* comment = Interaction(post_id, user_id, 'comment', trimmed_content) (line 86)
AddCommentNew(i) ==
    /\ inv[i].pc = "ac_new_comment"
    /\ inv' = [inv EXCEPT
          ![i].obj = {NewInteraction(inv[i].post_id, inv[i].user_id, "comment",
                                     StoredContent(inv[i].content), now)},
          ![i].pc = "ac_save"]
    /\ UNCHANGED <<users, posts, interactions, now, nToggles, deltaSum>>

\* comment.save() (line 92)
AddCommentSave(i) ==
    /\ inv[i].pc = "ac_save"
    /\ interactions' = PutItem(interactions, TheOne(inv[i].obj))
    /\ inv' = [inv EXCEPT ![i].pc = "ac_update"]
    /\ UNCHANGED <<users, posts, now, nToggles, deltaSum>>

\* post.update_counts(comments_delta=1) and the return value (lines 95-111)
AddCommentUpdate(i) ==
    /\ inv[i].pc = "ac_update"
    /\ LET p == inv[i].post_id
           local == LocalAfterUpdate(TheOne(inv[i].post), 0, 1)
           c == TheOne(inv[i].obj)
       IN  /\ posts' = UpdateCounts(posts, TheOne(inv[i].post), p, 0, 1)
           /\ inv' = [inv EXCEPT ![i] =
                 Finish(inv[i],
                        [status |-> "ok",
                         comment |-> [interaction_id |-> c.interaction_id,
                                      post_id |-> c.post_id,
                                      user_id |-> c.user_id,
                                      content |-> c.content,
                                      created_at |-> c.created_at],
                         comments_count |-> local.comments_count])]
           /\ deltaSum' = [deltaSum EXCEPT ![p].comments = @ + 1]
    /\ UNCHANGED <<users, interactions, now, nToggles>>

\* --------------------------------------------------------- delete_comment
\* a scan that stops at the first comment, whatever its id
FindCommentAnyId(comments, id) ==
    IF comments = <<>> THEN {} ELSE {comments[1]}

\* the linear scan of lines 217-221: the first comment with the given id
FindComment(comments, id) ==
    LET hits == {k \in 1..Len(comments) : comments[k].interaction_id = id}
    IN  IF hits = {} THEN {} ELSE {comments[SetMin(hits)]}

\* the interaction ids a caller can present
KnownIds == {r.interaction_id : r \in interactions} \cup {BogusId}

\* invocation, Interaction.get_post_interactions(post_id, 'comment'), the scan
\* and the author check (lines 216-228)
DeleteCommentQuery(i, u, p, id) ==
    /\ FirstFree(i)
    /\ now' = now + 1
    /\ LET call == Call("delete_comment", u, p, <<>>, id)
           found == FindComment(GetPostInteractions(p, "comment", DefaultLimit), id)
       IN  inv' = [inv EXCEPT ![i] =
              IF found = {}
              THEN Finish(call, [status |-> "NotFound", what |-> "comment"])
              ELSE IF TheOne(found).user_id # u
              THEN Finish(call, [status |-> "Validation", what |-> "author"])
              ELSE [call EXCEPT !.pc = "dc_delete", !.obj = found]]
    /\ UNCHANGED <<users, posts, interactions, nToggles, deltaSum>>

\* a delete that removes every comment of the author on the post
DeleteCommentDeleteAllByAuthor(i) ==
    /\ inv[i].pc = "dc_delete"
    /\ interactions' =
          {r \in interactions :
              ~(/\ r.post_id = TheOne(inv[i].obj).post_id
                /\ r.interaction_type = "comment"
                /\ r.user_id = TheOne(inv[i].obj).user_id)}
    /\ inv' = [inv EXCEPT ![i].pc = "dc_get_post"]
    /\ UNCHANGED <<users, posts, now, nToggles, deltaSum>>

\* comment.delete() (line 231)
DeleteCommentDelete(i) ==
    /\ inv[i].pc = "dc_delete"
    /\ interactions' = DeleteItem(interactions, TheOne(inv[i].obj).post_id,
                                  TheOne(inv[i].obj).interaction_id)
    /\ inv' = [inv EXCEPT ![i].pc = "dc_get_post"]
    /\ UNCHANGED <<users, posts, now, nToggles, deltaSum>>

\* post = Post.get_by_id(post_id) (lines 234-235, 240-243)
DeleteCommentGetPost(i) ==
    /\ inv[i].pc = "dc_get_post"
    /\ inv' = [inv EXCEPT ![i] =
          IF PostGetById(inv[i].post_id) = {}
          THEN Finish(@, [status |-> "ok", comments_count |-> 0])
          ELSE [@ EXCEPT !.pc = "dc_update",
                         !.post = PostGetById(inv[i].post_id)]]
    /\ UNCHANGED <<users, posts, interactions, now, nToggles, deltaSum>>

\* post.update_counts(comments_delta=-1) and the return value (lines 236-243)
DeleteCommentUpdate(i) ==
    /\ inv[i].pc = "dc_update"
    /\ LET p == inv[i].post_id
           local == LocalAfterUpdate(TheOne(inv[i].post), 0, -1)
       IN  /\ posts' = UpdateCounts(posts, TheOne(inv[i].post), p, 0, -1)
           /\ inv' = [inv EXCEPT ![i] =
                 Finish(inv[i], [status |-> "ok",
                                 comments_count |-> local.comments_count])]
           /\ deltaSum' = [deltaSum EXCEPT ![p].comments = @ - 1]
    /\ UNCHANGED <<users, interactions, now, nToggles>>

\* ---------------------------------------------------------- register_user
\* str.lower() on the characters the inputs use
LowerChar(ch) == IF ch = "A" THEN "a" ELSE IF ch = "B" THEN "b" ELSE ch
Lower(s) == [k \in 1..Len(s) |-> LowerChar(s[k])]

\* User.get_by_username / get_by_email: the accounts the index query returns
GetByUsername(username) == {u \in DOMAIN users : users[u].username = username}
GetByEmail(email) == {u \in DOMAIN users : users[u].email = email}

\* the input checks of AuthService.register_user (auth.py lines 79-86): the
\* error raised, {} when none
RegisterChecks(username, email, password) ==
    IF username = <<>> \/ Len(Strip(username)) < MinUsernameLen
    THEN {[status |-> "Validation", what |-> "username"]}
    ELSE IF email = <<>> \/ "@" \notin {email[k] : k \in 1..Len(email)}
    THEN {[status |-> "Validation", what |-> "email"]}
    ELSE IF password = <<>> \/ Len(password) < MinPasswordLen
    THEN {[status |-> "Validation", what |-> "password"]}
    ELSE {}

\* the registrations in flight
Registering == {j \in Inv : InFlight(j) /\ inv[j].op = "register_user"}

\* _generate_id: an id no account and no registration in flight holds
FreshUserId ==
    NewIdPool[SetMin({k \in 1..MaxNewUsers :
        /\ NewIdPool[k] \notin DOMAIN users
        /\ \A j \in Registering : inv[j].user_id # NewIdPool[k]})]

\* the id pool still has an id for one more account
CanRegister ==
    Cardinality(DOMAIN users \cap NewUserIds) + Cardinality(Registering) < MaxNewUsers

\* invocation, the input checks and User.get_by_username(username.strip())
\* (auth.py lines 79-91)
RegisterUserGetByUsername(i, username, email, password) ==
    /\ FirstFree(i)
    /\ CanRegister
    /\ LET call == [Call("register_user", "", "", <<>>, <<>>)
                      EXCEPT !.username = Strip(username),
                             !.email = Lower(Strip(email))]
           raised == RegisterChecks(username, email, password)
       IN  inv' = [inv EXCEPT ![i] =
              IF raised # {}
              THEN Finish(call, TheOne(raised))
              ELSE IF GetByUsername(Strip(username)) # {}
              THEN Finish(call, [status |-> "Validation", what |-> "username_taken"])
              ELSE [call EXCEPT !.pc = "rg_get_by_email"]]
    /\ UNCHANGED <<users, posts, interactions, now, nToggles, deltaSum>>

\* User.get_by_email(email.strip().lower()) (auth.py lines 93-95)
RegisterUserGetByEmail(i) ==
    /\ inv[i].pc = "rg_get_by_email"
    /\ inv' = [inv EXCEPT ![i] =
          IF GetByEmail(inv[i].email) # {}
          THEN Finish(@, [status |-> "Validation", what |-> "email_taken"])
          ELSE [@ EXCEPT !.pc = "rg_new_user"]]
    /\ UNCHANGED <<users, posts, interactions, now, nToggles, deltaSum>>

\* user = User(username, email, password_hash) (auth.py lines 99-103)
RegisterUserNew(i) ==
    /\ inv[i].pc = "rg_new_user"
    /\ inv' = [inv EXCEPT ![i].user_id = FreshUserId,
                          ![i].pc = "sv_get_by_username"]
    /\ UNCHANGED <<users, posts, interactions, now, nToggles, deltaSum>>

\* User.save: the username lookup (models.py lines 50-52)
UserSaveGetByUsername(i) ==
    /\ inv[i].pc = "sv_get_by_username"
    /\ inv' = [inv EXCEPT ![i] =
          IF GetByUsername(inv[i].username) # {}
          THEN Finish(@, [status |-> "Duplicate", what |-> "username"])
          ELSE [@ EXCEPT !.pc = "sv_get_by_email"]]
    /\ UNCHANGED <<users, posts, interactions, now, nToggles, deltaSum>>

\* User.save: the email lookup (models.py lines 55-57)
UserSaveGetByEmail(i) ==
    /\ inv[i].pc = "sv_get_by_email"
    /\ inv' = [inv EXCEPT ![i] =
          IF GetByEmail(inv[i].email) # {}
          THEN Finish(@, [status |-> "Duplicate", what |-> "email"])
          ELSE [@ EXCEPT !.pc = "sv_put"]]
    /\ UNCHANGED <<users, posts, interactions, now, nToggles, deltaSum>>

\* the put_item of the lookups passed (line 73): no condition on the write
UserSavePut(i) ==
    /\ inv[i].pc = "sv_put"
    /\ users' = [u \in DOMAIN users \cup {inv[i].user_id} |->
                    IF u = inv[i].user_id
                    THEN NewUser(inv[i].username, inv[i].email)
                    ELSE users[u]]
    /\ inv' = [inv EXCEPT ![i] =
          [Finish(@, [status |-> "ok", user_id |-> inv[i].user_id])
              EXCEPT !.user_id = inv[i].user_id]]
    /\ UNCHANGED <<posts, interactions, now, nToggles, deltaSum>>

\* ---------------------------------------------------------- store failures
\* what a store call raises: an exception whose text names the store (an
\* EndpointConnectionError quotes the dynamodb endpoint URL) or does not (a
\* ClientError quotes the error code and the operation)
StoreErrors ==
    {[status |-> "EndpointConnectionError", text_names_store |-> TRUE],
     [status |-> "ClientError", text_names_store |-> FALSE]}

\* a wrapper that re-raises whatever it caught
MonitorDatabaseOperationReraise(e) == e

\* the except branch of monitor_database_operation (monitoring.py lines
\* 412-420): an exception whose text holds 'dynamodb' or 'boto' is replaced
\* by a DatabaseError raised while handling it, any other is re-raised
MonitorDatabaseOperation(e) ==
    IF e.text_names_store
    THEN [status |-> "DatabaseError", context |-> e]
    ELSE e

\* what the caller of op receives when a store call raises e: toggle_like and
\* add_comment run inside monitor_database_operation, delete_comment logs
\* and re-raises (interaction_service.py lines 21, 65, 245-247)
Propagate(op, e) ==
    IF op \in {"toggle_like", "add_comment"} THEN MonitorDatabaseOperation(e) ELSE e

\* the positions at which the next step is a store call
StoreCallPcs ==
    {"tl_get_user_like", "tl_delete_like_find", "tl_delete_item", "tl_save",
     "tl_update", "ac_get_user", "ac_save", "ac_update", "dc_delete",
     "dc_get_post", "dc_update"}

\* the first store call of an invocation raises e: nothing was written
FirstCallFails(i, op, u, p, c, id, e) ==
    /\ FirstFree(i)
    /\ op = "add_comment" => ValidateContent(c) = ""
    /\ now' = now + 1
    /\ inv' = [inv EXCEPT ![i] = Finish(Call(op, u, p, c, id), Propagate(op, e))]
    /\ UNCHANGED <<users, posts, interactions, nToggles, deltaSum>>

\* the store call invocation i is about to make raises e: the call has no
\* effect, what the invocation wrote before stays, and the exception leaves
\* the operation
StoreCallFails(i, e) ==
    /\ inv[i].pc \in StoreCallPcs
    /\ inv' = [inv EXCEPT ![i] = Finish(inv[i], Propagate(inv[i].op, e))]
    /\ UNCHANGED <<users, posts, interactions, now, nToggles, deltaSum>>

\* get_user_like_status(user_id, post_id), its one store call answering
\* (interaction_service.py lines 202-204): like is not None
GetUserLikeStatusReturns(i, u, p) ==
    /\ FirstFree(i)
    /\ now' = now + 1
    /\ inv' = [inv EXCEPT ![i] =
          Finish(Call("get_user_like_status", u, p, <<>>, <<>>),
                 [status |-> "ok", value |-> GetUserLikeStatus(u, p), logged |-> {}])]
    /\ UNCHANGED <<users, posts, interactions, nToggles, deltaSum>>

\* get_user_like_status when Interaction.get_user_like raises e (lines
\* 206-208): the exception is logged and False is returned
GetUserLikeStatusFails(i, u, p, e) ==
    /\ FirstFree(i)
    /\ now' = now + 1
    /\ inv' = [inv EXCEPT ![i] =
          Finish(Call("get_user_like_status", u, p, <<>>, <<>>),
                 [status |-> "ok", value |-> FALSE, logged |-> {e}])]
    /\ UNCHANGED <<users, posts, interactions, nToggles, deltaSum>>

\* ------------------------------------------------------ read aggregations
\* the join of lines 133-142 / 172-183: the fetched items whose author still
\* has a User record, in the order fetched
JoinUsers(items) == SelectSeq(items, LAMBDA r : UserGetById(r.user_id) # {})

\* the reported number of likes taken from the Post record
JoinedCountFromPost(joined, post) == post.likes_count

\* the reported likes_count / comments_count: len(..._with_users) (lines 146, 190)
JoinedCount(joined, post) == Len(joined)

\* a result list left in the order the query returned it
SortByCreatedAtSkipped(s) == s

\* list.sort(key=created_at) (line 186): stable, oldest first
SortByCreatedAt(s) ==
    LET place(j) == Cardinality({k \in 1..Len(s) :
                        \/ s[k].created_at < s[j].created_at
                        \/ s[k].created_at = s[j].created_at /\ k < j})
    IN  [n \in 1..Len(s) |-> s[CHOOSE j \in 1..Len(s) : place(j) = n - 1]]

\* invocation of get_post_likes / get_post_comments and Post.get_by_id
\* (lines 121-123, 160-162)
ReadGetPost(i, op, p, limit) ==
    /\ FirstFree(i)
    /\ now' = now + 1
    /\ LET call == [Call(op, "", p, <<>>, <<>>) EXCEPT !.limit = limit]
       IN  inv' = [inv EXCEPT ![i] =
              IF PostGetById(p) = {}
              THEN Finish(call, [status |-> "NotFound", what |-> "post"])
              ELSE [call EXCEPT !.pc = "rd_query", !.post = PostGetById(p)]]
    /\ UNCHANGED <<users, posts, interactions, nToggles, deltaSum>>

GetPostLikesGetPost(i, p, limit) == ReadGetPost(i, "get_post_likes", p, limit)

GetPostCommentsGetPost(i, p, limit) == ReadGetPost(i, "get_post_comments", p, limit)

\* Interaction.get_post_interactions(post_id, 'like' / 'comment', limit)
\* (lines 126-130, 165-169)
ReadQuery(i) ==
    /\ inv[i].pc = "rd_query"
    /\ inv' = [inv EXCEPT
          ![i].fetched =
              GetPostInteractions(inv[i].post_id,
                                  IF inv[i].op = "get_post_likes" THEN "like"
                                                                  ELSE "comment",
                                  inv[i].limit),
          ![i].pc = IF inv[i].op = "get_post_likes" THEN "gl_join" ELSE "gc_join"]
    /\ UNCHANGED <<users, posts, interactions, now, nToggles, deltaSum>>

\* the User.get_by_id of every like and the return value (lines 133-148)
GetPostLikesJoin(i) ==
    /\ inv[i].pc = "gl_join"
    /\ LET likes_with_users == JoinUsers(inv[i].fetched)
           post == TheOne(inv[i].post)
       IN  inv' = [inv EXCEPT ![i] =
              Finish(inv[i],
                     [status |-> "ok",
                      likes |-> [k \in 1..Len(likes_with_users) |->
                                    [user_id |-> likes_with_users[k].user_id,
                                     created_at |-> likes_with_users[k].created_at]],
                      likes_count |-> JoinedCount(likes_with_users, post),
                      total_likes |-> post.likes_count])]
    /\ UNCHANGED <<users, posts, interactions, now, nToggles, deltaSum>>

\* the User.get_by_id of every comment, the sort and the return value
\* (lines 172-192)
GetPostCommentsJoin(i) ==
    /\ inv[i].pc = "gc_join"
    /\ LET comments_with_users == SortByCreatedAt(JoinUsers(inv[i].fetched))
           post == TheOne(inv[i].post)
       IN  inv' = [inv EXCEPT ![i] =
              Finish(inv[i],
                     [status |-> "ok",
                      comments |-> [k \in 1..Len(comments_with_users) |->
                                       [interaction_id |-> comments_with_users[k].interaction_id,
                                        user_id |-> comments_with_users[k].user_id,
                                        content |-> comments_with_users[k].content,
                                        created_at |-> comments_with_users[k].created_at]],
                      comments_count |-> Len(comments_with_users),
                      total_comments |-> post.comments_count])]
    /\ UNCHANGED <<users, posts, interactions, now, nToggles, deltaSum>>

\* ------------------------------------------------------------ delete_post
\* table.delete_item(Key post_id) of Post.delete
DeletePostItem(tbl, p) == [q \in DOMAIN tbl \ {p} |-> tbl[q]]

\* the argument checks, Post.get_by_id and the ownership check of
\* PostService.delete_post (post_service.py lines 219-232): the error raised,
\* {} when none
DeletePostChecks(u, p) ==
    IF p = "" THEN {[status |-> "Validation", what |-> "post_id"]}
    ELSE IF u = "" THEN {[status |-> "Validation", what |-> "user_id"]}
    ELSE IF PostGetById(p) = {} THEN {[status |-> "Validation", what |-> "post"]}
    ELSE IF TheOne(PostGetById(p)).user_id # u
    THEN {[status |-> "Authentication", what |-> "owner"]}
    ELSE {}

\* invocation, the checks and Post.get_by_id (lines 219-232)
DeletePostGetPost(i, u, p) ==
    /\ FirstFree(i)
    /\ LET call == Call("delete_post", u, p, <<>>, <<>>)
           raised == DeletePostChecks(u, p)
       IN  /\ inv' = [inv EXCEPT ![i] =
                 IF raised # {}
                 THEN Finish(call, TheOne(raised))
                 ELSE [call EXCEPT !.pc = "dp_query", !.post = PostGetById(p)]]
           /\ now' = IF p = "" \/ u = "" THEN now ELSE now + 1
    /\ UNCHANGED <<users, posts, interactions, nToggles, deltaSum>>

\* interactions = Interaction.get_post_interactions(post_id) (line 235)
DeletePostQuery(i) ==
    /\ inv[i].pc = "dp_query"
    /\ LET found == GetPostInteractions(inv[i].post_id, NoType, DefaultLimit)
       IN  inv' = [inv EXCEPT ![i].interactions_left = found,
                              ![i].pc = IF found = <<>> THEN "dp_delete_post"
                                                        ELSE "dp_delete_interaction"]
    /\ UNCHANGED <<users, posts, interactions, now, nToggles, deltaSum>>

\* one turn of the loop: interaction.delete() (lines 236-237)
DeletePostDeleteInteraction(i) ==
    /\ inv[i].pc = "dp_delete_interaction"
    /\ LET interaction == Head(inv[i].interactions_left)
           rest == Tail(inv[i].interactions_left)
       IN  /\ interactions' = DeleteItem(interactions, interaction.post_id,
                                         interaction.interaction_id)
           /\ inv' = [inv EXCEPT ![i].interactions_left = rest,
                                 ![i].pc = IF rest = <<>> THEN "dp_delete_post"
                                                          ELSE "dp_delete_interaction"]
    /\ UNCHANGED <<users, posts, now, nToggles, deltaSum>>

\* post.delete() and return True (lines 240, 246)
DeletePostDelete(i) ==
    /\ inv[i].pc = "dp_delete_post"
    /\ posts' = DeletePostItem(posts, inv[i].post_id)
    /\ inv' = [inv EXCEPT ![i] = Finish(inv[i], [status |-> "ok", value |-> TRUE])]
    /\ UNCHANGED <<users, interactions, now, nToggles, deltaSum>>

\* --------------------------------------------------------- specifications
\* the steps of the invocations in flight
Step ==
    \/ \E i \in Inv : ToggleLikeGetUserLike(i)
    \/ \E i \in Inv : DeleteLikeFind(i)
    \/ \E i \in Inv : DeleteLikeItem(i)
    \/ \E i \in Inv : ToggleLikeNew(i)
    \/ \E i \in Inv : ToggleLikeSave(i)
    \/ \E i \in Inv : ToggleLikeUpdate(i)
    \/ \E i \in Inv : AddCommentGetUser(i)
    \/ \E i \in Inv : AddCommentNew(i)
    \/ \E i \in Inv : AddCommentSave(i)
    \/ \E i \in Inv : AddCommentUpdate(i)
    \/ \E i \in Inv : DeleteCommentDelete(i)
    \/ \E i \in Inv : DeleteCommentGetPost(i)
    \/ \E i \in Inv : DeleteCommentUpdate(i)

\* invocations by the signed-in users, interleaved between their store calls
Next ==
    \/ \E i \in Inv, u \in RegisteredUsers, p \in PostIds :
          now < MaxTime /\ ToggleLikeGetPost(i, u, p)
    \/ \E i \in Inv, u \in RegisteredUsers, p \in PostIds, c \in SomeContents :
          now < MaxTime /\ AddCommentGetPost(i, u, p, c)
    \/ \E i \in Inv, u \in RegisteredUsers, p \in PostIds, id \in KnownIds :
          now < MaxTime /\ DeleteCommentQuery(i, u, p, id)
    \/ Step

Spec == Init /\ [][Next]_vars

\* the same interleavings over a longer run: three invocations in all
NextRace ==
    \/ \E i \in Inv, u \in RegisteredUsers, p \in PostIds :
          now < MaxRaceTime /\ ToggleLikeGetPost(i, u, p)
    \/ \E i \in Inv, u \in RegisteredUsers, p \in PostIds, c \in SomeContents :
          now < MaxRaceTime /\ AddCommentGetPost(i, u, p, c)
    \/ \E i \in Inv, u \in RegisteredUsers, p \in PostIds, id \in KnownIds :
          now < MaxRaceTime /\ DeleteCommentQuery(i, u, p, id)
    \/ Step

SpecRace == Init /\ [][NextRace]_vars

\* one invocation at a time, any caller and any input
NextSeq ==
    \/ \E i \in Inv, u \in UserIds, p \in PostIds :
          now < MaxSeqTime /\ NoneInFlight /\ ToggleLikeGetPost(i, u, p)
    \/ \E i \in Inv, u \in UserIds, p \in PostIds, c \in Contents :
          now < MaxSeqTime /\ NoneInFlight /\ AddCommentGetPost(i, u, p, c)
    \/ \E i \in Inv, u \in UserIds, p \in PostIds, id \in KnownIds :
          now < MaxSeqTime /\ NoneInFlight /\ DeleteCommentQuery(i, u, p, id)
    \/ Step

SpecSeq == Init /\ [][NextSeq]_vars

\* add_comment alone, one invocation at a time, on contents around the
\* length limit
NextLen ==
    \/ \E i \in Inv, u \in UserIds, p \in PostIds, c \in LenContents :
          now < MaxSeqTime /\ NoneInFlight /\ AddCommentGetPost(i, u, p, c)
    \/ \E i \in Inv : AddCommentGetUser(i)
    \/ \E i \in Inv : AddCommentNew(i)
    \/ \E i \in Inv : AddCommentSave(i)
    \/ \E i \in Inv : AddCommentUpdate(i)

SpecLen == Init /\ [][NextLen]_vars

\* a post that has collected DefaultLimit comments by its owner, the newest
\* written one tick ago
BusyComments ==
    {NewInteraction("p1", "u1", "comment", <<"b">>, 0 - k) : k \in 1..DefaultLimit}

InitBusy ==
    /\ users = InitialUsers
    /\ posts = [p \in CreatedPosts |->
                  [NewPost("u1") EXCEPT !.comments_count = DefaultLimit]]
    /\ interactions = BusyComments
    /\ now = 0
    /\ inv = [i \in Inv |-> IdleInv]
    /\ nToggles = [u \in UserIds |-> [p \in PostIds |-> 0]]
    /\ deltaSum = [p \in PostIds |->
                     [likes |-> 0,
                      comments |-> IF p \in CreatedPosts THEN DefaultLimit ELSE 0]]

\* the ids a caller of the busy post presents: the newest old comment,
\* whatever was written since, and an id nobody holds
RecentIds ==
    {r.interaction_id : r \in {x \in interactions : x.created_at >= -1}}
        \cup {BogusId}

\* the steps of a delete_post in flight
StepPost ==
    \/ \E i \in Inv : DeletePostQuery(i)
    \/ \E i \in Inv : DeletePostDeleteInteraction(i)
    \/ \E i \in Inv : DeletePostDelete(i)

\* one invocation at a time on the busy post, the owner's delete_post included
NextBusy ==
    \/ \E i \in Inv, u \in RegisteredUsers, p \in PostIds :
          now < MaxBusyTime /\ NoneInFlight /\ ToggleLikeGetPost(i, u, p)
    \/ \E i \in Inv, u \in RegisteredUsers, p \in PostIds :
          now < MaxBusyTime /\ NoneInFlight /\ AddCommentGetPost(i, u, p, <<"b">>)
    \/ \E i \in Inv, u \in RegisteredUsers, p \in PostIds, id \in RecentIds :
          now < MaxBusyTime /\ NoneInFlight /\ DeleteCommentQuery(i, u, p, id)
    \/ \E i \in Inv, u \in RegisteredUsers \cup {""}, p \in PostIds :
          now < MaxBusyTime /\ NoneInFlight /\ DeletePostGetPost(i, u, p)
    \/ Step
    \/ StepPost

SpecBusy == InitBusy /\ [][NextBusy]_vars

\* the limits a reader passes: one item, or the default
Limits == {1, DefaultLimit}

\* the steps of a read aggregation in flight
StepRead ==
    \/ \E i \in Inv : ReadQuery(i)
    \/ \E i \in Inv : GetPostLikesJoin(i)
    \/ \E i \in Inv : GetPostCommentsJoin(i)

\* likes, comments and the two read aggregations, one invocation at a time
NextRead ==
    \/ \E i \in Inv, u \in UserIds, p \in PostIds :
          now < MaxReadTime /\ NoneInFlight /\ ToggleLikeGetPost(i, u, p)
    \/ \E i \in Inv, u \in UserIds, p \in PostIds :
          now < MaxReadTime /\ NoneInFlight /\ AddCommentGetPost(i, u, p, <<"b">>)
    \/ \E i \in Inv, u \in UserIds, p \in PostIds, id \in KnownIds :
          now < MaxReadTime /\ NoneInFlight /\ DeleteCommentQuery(i, u, p, id)
    \/ \E i \in Inv, p \in PostIds, limit \in Limits :
          now < MaxReadTime /\ NoneInFlight /\ GetPostLikesGetPost(i, p, limit)
    \/ \E i \in Inv, p \in PostIds, limit \in Limits :
          now < MaxReadTime /\ NoneInFlight /\ GetPostCommentsGetPost(i, p, limit)
    \/ Step
    \/ StepRead

SpecRead == Init /\ [][NextRead]_vars

\* one invocation at a time against a store whose calls can fail
NextFail ==
    \/ \E i \in Inv, u \in RegisteredUsers, p \in PostIds :
          now < MaxFailTime /\ NoneInFlight /\ ToggleLikeGetPost(i, u, p)
    \/ \E i \in Inv, u \in RegisteredUsers, p \in PostIds, c \in {<<>>, <<"b">>} :
          now < MaxFailTime /\ NoneInFlight /\ AddCommentGetPost(i, u, p, c)
    \/ \E i \in Inv, u \in RegisteredUsers, p \in PostIds, id \in KnownIds :
          now < MaxFailTime /\ NoneInFlight /\ DeleteCommentQuery(i, u, p, id)
    \/ \E i \in Inv, u \in RegisteredUsers, p \in PostIds, e \in StoreErrors :
          now < MaxFailTime /\ NoneInFlight
             /\ FirstCallFails(i, "toggle_like", u, p, <<>>, <<>>, e)
    \/ \E i \in Inv, u \in RegisteredUsers, p \in PostIds, e \in StoreErrors :
          now < MaxFailTime /\ NoneInFlight
             /\ FirstCallFails(i, "add_comment", u, p, <<"b">>, <<>>, e)
    \/ \E i \in Inv, u \in RegisteredUsers, p \in PostIds, id \in KnownIds,
             e \in StoreErrors :
          now < MaxFailTime /\ NoneInFlight
             /\ FirstCallFails(i, "delete_comment", u, p, <<>>, id, e)
    \/ \E i \in Inv, e \in StoreErrors : StoreCallFails(i, e)
    \/ Step

SpecFail == Init /\ [][NextFail]_vars

\* likes, comments and the read aggregations, all interleaved between their
\* store calls
NextMix ==
    \/ Next
    \/ \E i \in Inv, p \in PostIds :
          now < MaxTime /\ GetPostLikesGetPost(i, p, DefaultLimit)
    \/ \E i \in Inv, p \in PostIds :
          now < MaxTime /\ GetPostCommentsGetPost(i, p, DefaultLimit)
    \/ StepRead

SpecMix == Init /\ [][NextMix]_vars

\* the caller has no other invocation in flight (a client that waits for
\* the answer to one request before it sends the next)
Solo(u) == \A j \in Inv : InFlight(j) => inv[j].user_id # u

\* invocations of different users interleaved between their store calls,
\* each user running one invocation at a time
NextSolo ==
    \/ \E i \in Inv, u \in UserIds, p \in CreatedPosts :
          now < MaxSoloTime /\ Solo(u) /\ ToggleLikeGetPost(i, u, p)
    \/ \E i \in Inv, u \in UserIds, p \in CreatedPosts :
          now < MaxSoloTime /\ Solo(u) /\ AddCommentGetPost(i, u, p, <<"b">>)
    \/ \E i \in Inv, u \in UserIds, p \in CreatedPosts, id \in KnownIds :
          now < MaxSoloTime /\ Solo(u) /\ DeleteCommentQuery(i, u, p, id)
    \/ Step

SpecSolo == Init /\ [][NextSolo]_vars

\* likes, comments and the owner's delete_post, all interleaved between
\* their store calls
NextGone ==
    \/ NextRace
    \/ \E i \in Inv, u \in RegisteredUsers, p \in PostIds :
          now < MaxRaceTime /\ DeletePostGetPost(i, u, p)
    \/ StepPost

SpecGone == Init /\ [][NextGone]_vars

\* likes and like-status checks, one invocation at a time, against a store
\* whose query can fail
NextStatus ==
    \/ \E i \in Inv, u \in UserIds, p \in PostIds :
          now < MaxStatusTime /\ NoneInFlight /\ ToggleLikeGetPost(i, u, p)
    \/ \E i \in Inv, u \in UserIds, p \in PostIds :
          now < MaxStatusTime /\ NoneInFlight /\ GetUserLikeStatusReturns(i, u, p)
    \/ \E i \in Inv, u \in UserIds, p \in PostIds, e \in StoreErrors :
          now < MaxStatusTime /\ NoneInFlight /\ GetUserLikeStatusFails(i, u, p, e)
    \/ \E i \in Inv : ToggleLikeGetUserLike(i)
    \/ \E i \in Inv : DeleteLikeFind(i)
    \/ \E i \in Inv : DeleteLikeItem(i)
    \/ \E i \in Inv : ToggleLikeNew(i)
    \/ \E i \in Inv : ToggleLikeSave(i)
    \/ \E i \in Inv : ToggleLikeUpdate(i)

SpecStatus == Init /\ [][NextStatus]_vars

\* registrations, interleaved between their store calls
NextReg ==
    \/ \E i \in Inv, username \in Usernames, email \in Emails, password \in Passwords :
          RegisterUserGetByUsername(i, username, email, password)
    \/ \E i \in Inv : RegisterUserGetByEmail(i)
    \/ \E i \in Inv : RegisterUserNew(i)
    \/ \E i \in Inv : UserSaveGetByUsername(i)
    \/ \E i \in Inv : UserSaveGetByEmail(i)
    \/ \E i \in Inv : UserSavePut(i)

SpecReg == Init /\ [][NextReg]_vars

\* ------------------------------------------------------- claim vocabulary
LiveLikes(p) == {r \in interactions : r.post_id = p /\ r.interaction_type = "like"}
LiveComments(p) == {r \in interactions : r.post_id = p /\ r.interaction_type = "comment"}
LikesOf(p, u) == {r \in LiveLikes(p) : r.user_id = u}
Likers(p) == {u \in UserIds : LikesOf(p, u) # {}}
Res(i) == TheOne(inv[i].result)
Ok(i, op) == inv[i].pc = "done" /\ inv[i].op = op /\ Res(i).status = "ok"
Failed(i, op, status) == inv[i].pc = "done" /\ inv[i].op = op /\ Res(i).status = status
\* the step is taken by invocation i
Acts(i) == inv'[i] # inv[i]
\* the step is taken by an invocation op(u, p, ...) in slot i
ActsAs(i, op, u, p) ==
    Acts(i) /\ inv'[i].op = op /\ inv'[i].user_id = u /\ inv'[i].post_id = p
\* ... and it is the step on which that invocation returns or raises
Ends(i, op, u, p) == ActsAs(i, op, u, p) /\ inv'[i].pc = "done"
\* ... and it is the step on which that invocation returns normally
Returns(i, op, u, p) == Ends(i, op, u, p) /\ Res(i)'.status = "ok"
\* ... and it is the first step of that invocation
Begins(i, op, u, p) == ActsAs(i, op, u, p) /\ Free(i)
OddToggles(u, p) == nToggles[u][p] % 2 = 1

\* C1: run one invocation at a time, whenever none is in flight every post's
\* likes_count is its number of live like records and its comments_count its
\* number of live comment records.
C1_CountsMatchRecords ==
    NoneInFlight =>
        \A p \in DOMAIN posts :
            /\ posts[p].likes_count = Cardinality(LiveLikes(p))
            /\ posts[p].comments_count = Cardinality(LiveComments(p))

C1_Witness ==
    /\ Ok(1, "delete_comment")
    /\ posts["p1"].likes_count = 1
    /\ Cardinality(LiveLikes("p1")) = 1
    /\ LiveComments("p1") = {}

\* C2: run one invocation at a time, the k-th toggle_like(u, p) returns
\* liked = (k is odd) and moves the stored likes_count by +1 when liked and by
\* -1 when not; afterwards (k mod 2) like records of (p, u) exist and the
\* counter is the number of users with an odd number of toggles, so an even
\* number of toggles leaves it where it started.
C2_ToggleAlternates ==
    [][\A i \in Inv, u \in UserIds, p \in PostIds :
         Returns(i, "toggle_like", u, p) =>
            /\ Res(i)'.liked = OddToggles(u, p)'
            /\ posts'[p].likes_count =
                  posts[p].likes_count + (IF Res(i)'.liked THEN 1 ELSE -1)
            /\ Cardinality(LikesOf(p, u))' = (nToggles[u][p] % 2)'
            /\ posts'[p].likes_count =
                  Cardinality({v \in UserIds : OddToggles(v, p)})']_vars

C2_Witness ==
    /\ Ok(1, "toggle_like")
    /\ nToggles["u1"]["p1"] = 3
    /\ Res(1).liked
    /\ posts["p1"].likes_count = 1

\* C3: at most one live like record exists per (post, user), whatever the
\* interleaving of toggle_like invocations.
C3_AtMostOneLike ==
    \A p \in PostIds, u \in UserIds : Cardinality(LikesOf(p, u)) <= 1

\* C4: the stored counters of a post are its initial counters (0) plus the
\* sums of the deltas of the update_counts calls completed on it, whatever
\* the interleaving.
C4_DeltasNeverLost ==
    \A p \in DOMAIN posts :
        /\ posts[p].likes_count = deltaSum[p].likes
        /\ posts[p].comments_count = deltaSum[p].comments

\* two overlapping toggles both read likes_count 0 and both added 1
C4_Witness ==
    /\ posts["p1"].likes_count = 2
    /\ \E i, j \in Inv :
          /\ i # j
          /\ Ok(i, "toggle_like") /\ Res(i).likes_count = 1
          /\ Ok(j, "toggle_like") /\ Res(j).likes_count = 1

\* C5: no step of a toggle_like by A touches another user's like records or
\* like status; run one invocation at a time, the count a toggle_like returns
\* and the stored count are the number of users who currently like the post.
C5_LikeIsolation ==
    [][\A i \in Inv, a \in UserIds, p \in PostIds :
         /\ ActsAs(i, "toggle_like", a, p) =>
              \A b \in UserIds \ {a}, q \in PostIds :
                  /\ LikesOf(q, b)' = LikesOf(q, b)
                  /\ GetUserLikeStatus(b, q)' = GetUserLikeStatus(b, q)
         /\ Returns(i, "toggle_like", a, p) =>
              /\ Res(i)'.likes_count = Cardinality(Likers(p))'
              /\ posts'[p].likes_count = Cardinality(Likers(p))'
              /\ Res(i)'.liked = GetUserLikeStatus(a, p)']_vars

\* A liked, B liked, A toggled again
C5_Witness ==
    /\ Ok(1, "toggle_like")
    /\ inv[1].user_id = "u1"
    /\ ~Res(1).liked
    /\ Res(1).likes_count = 1
    /\ posts["p1"].likes_count = 1
    /\ ~GetUserLikeStatus("u1", "p1")
    /\ GetUserLikeStatus("u2", "p1")

\* C6: the likes_count toggle_like returns is the stored likes_count right
\* after its own counter update, for every interleaving.
C6_ReturnsStoredCount ==
    [][\A i \in Inv, u \in UserIds, p \in PostIds :
         Returns(i, "toggle_like", u, p) =>
            Res(i)'.likes_count = posts'[p].likes_count]_vars

\* C7: when toggle_like(u, p) returns liked = false and no other invocation
\* by u on p is in flight, no live like record of (p, u) is left.
C7_UnlikeLeavesNoLike ==
    [][\A i \in Inv, u \in UserIds, p \in PostIds :
         /\ Returns(i, "toggle_like", u, p)
         /\ ~Res(i)'.liked
         /\ \A j \in Inv \ {i} :
               ~(InFlight(j) /\ inv[j].user_id = u /\ inv[j].post_id = p)
         => /\ LikesOf(p, u)' = {}
            /\ ~GetUserLikeStatus(u, p)']_vars

\* C8: toggle_like on a post_id without a Post raises NotFound at once and
\* neither the Interactions nor the Posts table changes.
C8_ToggleMissingPost ==
    [][\A i \in Inv, u \in UserIds, p \in PostIds :
         Begins(i, "toggle_like", u, p) /\ p \notin DOMAIN posts =>
            /\ inv'[i].pc = "done"
            /\ Res(i)' = [status |-> "NotFound", what |-> "post"]
            /\ interactions' = interactions
            /\ posts' = posts]_vars

C8_Witness ==
    /\ \E i \in Inv : Failed(i, "toggle_like", "NotFound") /\ inv[i].post_id = "p9"
    /\ interactions # {}
    /\ "p9" \notin DOMAIN posts

\* C9: a successful add_comment(u, p, content) adds exactly one record that
\* was not there, a comment of u on p holding the trimmed content, which is
\* also the content returned; it adds exactly 1 to comments_count and changes
\* neither likes_count nor any other Interaction record.
C9_AddCommentEffect ==
    [][\A i \in Inv, u \in UserIds, p \in PostIds :
         ActsAs(i, "add_comment", u, p) /\ InFlight(i) =>
            /\ inv[i].pc = "ac_save" =>
                  \E r \in interactions' \ interactions :
                      /\ interactions' = interactions \cup {r}
                      /\ r.post_id = p /\ r.user_id = u
                      /\ r.interaction_type = "comment"
                      /\ r.content = Strip(inv[i].content)
            /\ inv[i].pc # "ac_save" => interactions' = interactions
            /\ inv[i].pc = "ac_update" =>
                  /\ posts'[p].comments_count = posts[p].comments_count + 1
                  /\ posts'[p].likes_count = posts[p].likes_count
                  /\ Res(i)'.comment.content = Strip(inv[i].content)
            /\ inv[i].pc # "ac_update" => posts' = posts]_vars

\* C10: add_comment raises for the first check that fails, in the order
\* content missing or blank, trimmed content longer than 500, post absent,
\* user absent.
Blank(c) == c = NoneContent \/ \A k \in 1..Len(c) : c[k] \in Whitespace
C10_ValidationOrder ==
    [][\A i \in Inv :
         /\ Acts(i) /\ Free(i) /\ inv'[i].op = "add_comment" =>
              IF Blank(inv'[i].content)
              THEN inv'[i].pc = "done"
                   /\ Res(i)' = [status |-> "Validation", what |-> "required"]
              ELSE IF Len(Strip(inv'[i].content)) > MaxCommentLen
              THEN inv'[i].pc = "done"
                   /\ Res(i)' = [status |-> "Validation", what |-> "too_long"]
              ELSE IF inv'[i].post_id \notin DOMAIN posts
              THEN inv'[i].pc = "done"
                   /\ Res(i)' = [status |-> "NotFound", what |-> "post"]
              ELSE inv'[i].pc = "ac_get_user"
         /\ Acts(i) /\ inv[i].pc = "ac_get_user" =>
              IF inv[i].user_id \notin DOMAIN users
              THEN inv'[i].pc = "done"
                   /\ Res(i)' = [status |-> "NotFound", what |-> "user"]
              ELSE inv'[i].pc = "ac_new_comment"]_vars

\* empty content on a post that does not exist
C10_Witness ==
    /\ Failed(1, "add_comment", "Validation")
    /\ inv[1].content = <<>>
    /\ inv[1].post_id = "p9"
    /\ inv[1].user_id = "u9"

\* C11: no step of an add_comment invocation that ends in a Validation or
\* NotFound error changes a table: the Interaction records and the counters
\* of every post are afterwards what they were before the call.
C11_FailedAddCommentFrame ==
    [][\A i \in Inv :
         /\ Acts(i) /\ inv'[i].op = "add_comment"
         /\ \/ inv'[i].pc = "ac_get_user"
            \/ inv'[i].pc = "done" /\ Res(i)'.status \in {"Validation", "NotFound"}
         => /\ interactions' = interactions
            /\ posts' = posts
            /\ users' = users]_vars

\* an unregistered user's comment is refused on a post that holds a comment
C11_Witness ==
    /\ Failed(1, "add_comment", "NotFound")
    /\ Res(1).what = "user"
    /\ posts["p1"].comments_count = 1
    /\ Cardinality(LiveComments("p1")) = 1

\* C12: add_comment accepts a content whose trimmed length is 1..500 and
\* raises Validation when it is 501 or more, whatever whitespace surrounds
\* it; an accepted content on an existing post by a registered user is saved
\* and returned trimmed.
TrimmedLen(c) ==
    LET lead == CHOOSE k \in 0..Len(c) :
                    /\ k = Len(c) \/ c[k + 1] \notin Whitespace
                    /\ \A j \in 1..k : c[j] \in Whitespace
        trail == CHOOSE k \in 0..Len(c) :
                    /\ k = Len(c) \/ c[Len(c) - k] \notin Whitespace
                    /\ \A j \in (Len(c) - k + 1)..Len(c) : c[j] \in Whitespace
    IN  IF lead = Len(c) THEN 0 ELSE Len(c) - lead - trail
C12_LengthBoundary ==
    [][\A i \in Inv :
         /\ Acts(i) /\ Free(i) /\ inv'[i].op = "add_comment" =>
              /\ TrimmedLen(inv'[i].content) > MaxCommentLen =>
                    /\ inv'[i].pc = "done"
                    /\ Res(i)' = [status |-> "Validation", what |-> "too_long"]
              /\ TrimmedLen(inv'[i].content) \in 1..MaxCommentLen =>
                    IF inv'[i].post_id \in DOMAIN posts
                    THEN inv'[i].pc = "ac_get_user"
                    ELSE Res(i)'.status = "NotFound"
         /\ Acts(i) /\ inv[i].pc = "ac_get_user" /\ inv[i].user_id \in DOMAIN users =>
              inv'[i].pc = "ac_new_comment"
         /\ Acts(i) /\ inv[i].pc = "ac_update" =>
              /\ Res(i)'.status = "ok"
              /\ Len(Res(i)'.comment.content) = TrimmedLen(inv[i].content)
              /\ Res(i)'.comment.content \in {r.content : r \in LiveComments(inv[i].post_id)}]_vars

\* a comment of 500 characters between a blank and a newline was accepted
C12_Witness ==
    /\ Ok(1, "add_comment")
    /\ inv[1].content = PaddedMaxLen
    /\ Len(inv[1].content) = MaxCommentLen + 2
    /\ Res(1).comment.content = MaxLenContent
    /\ \E r \in LiveComments("p1") : Len(r.content) = MaxCommentLen

\* the live comment of post p that carries the id the invocation starting in
\* slot i presents
Target(i, p) == {r \in LiveComments(p) : r.interaction_id = inv'[i].interaction_id}

\* C13: delete_comment(u, p, id) on a live comment of p written by another
\* user raises Validation, and no Interaction record and no counter changes.
C13_DeleteByOtherUser ==
    [][\A i \in Inv, u \in UserIds, p \in PostIds :
         /\ Begins(i, "delete_comment", u, p)
         /\ \E r \in Target(i, p) : r.user_id # u
         => /\ inv'[i].pc = "done"
            /\ Res(i)' = [status |-> "Validation", what |-> "author"]
            /\ interactions' = interactions
            /\ posts' = posts]_vars

\* C14: delete_comment(u, p, id) with an id that no live comment of p carries
\* raises NotFound, and no Interaction record and no counter changes.
C14_DeleteUnknownId ==
    [][\A i \in Inv, u \in UserIds, p \in PostIds :
         Begins(i, "delete_comment", u, p) /\ Target(i, p) = {} =>
            /\ inv'[i].pc = "done"
            /\ Res(i)' = [status |-> "NotFound", what |-> "comment"]
            /\ interactions' = interactions
            /\ posts' = posts]_vars

\* an id nobody holds is presented for a post that has a comment
C14_Witness ==
    \E i \in Inv :
        /\ Failed(i, "delete_comment", "NotFound")
        /\ inv[i].post_id = "p1"
        /\ inv[i].interaction_id = BogusId
        /\ LiveComments("p1") # {}
        /\ posts["p1"].comments_count = 1

\* C15: delete_comment(u, p, id) called by the author of a live comment
\* (p, id) finds it and goes on to delete it, however many records p holds.
C15_AuthorFindsComment ==
    [][\A i \in Inv, u \in UserIds, p \in PostIds :
         /\ Begins(i, "delete_comment", u, p)
         /\ \E r \in Target(i, p) : r.user_id = u
         => /\ inv'[i].pc = "dc_delete"
            /\ inv'[i].obj = Target(i, p)]_vars

\* C16: run one invocation at a time, a delete_comment(u, p, id) that found
\* its comment removes that one record and nothing else, then takes exactly 1
\* off p's stored comments_count, leaves likes_count and every other post
\* alone, and returns the stored comments_count.
C16_DeleteCommentEffect ==
    [][\A i \in Inv, u \in UserIds, p \in PostIds :
         ActsAs(i, "delete_comment", u, p) /\ InFlight(i) =>
            /\ inv[i].pc = "dc_delete" =>
                  /\ \E r \in LiveComments(p) :
                        /\ r.interaction_id = inv[i].interaction_id
                        /\ r.user_id = u
                        /\ interactions' = interactions \ {r}
                  /\ posts' = posts
            /\ inv[i].pc = "dc_get_post" =>
                  /\ inv'[i].pc = "dc_update"
                  /\ interactions' = interactions
                  /\ posts' = posts
            /\ inv[i].pc = "dc_update" =>
                  /\ interactions' = interactions
                  /\ DOMAIN posts' = DOMAIN posts
                  /\ posts'[p].comments_count = posts[p].comments_count - 1
                  /\ posts'[p].likes_count = posts[p].likes_count
                  /\ \A q \in DOMAIN posts \ {p} : posts'[q] = posts[q]
                  /\ Res(i)' = [status |-> "ok",
                                comments_count |-> posts'[p].comments_count]]_vars

\* the older of u1's two comments was deleted, the newer one is still there
C16_Witness ==
    /\ Ok(1, "delete_comment")
    /\ inv[1].user_id = "u1"
    /\ Res(1).comments_count = 1
    /\ posts["p1"].comments_count = 1
    /\ \E r \in LiveComments("p1") :
          /\ LiveComments("p1") = {r}
          /\ r.user_id = "u1"
          /\ r.created_at > inv[1].interaction_id[3]

\* C17: run one invocation at a time, get_post_comments returns live
\* comments of the post, each once, oldest first: created_at grows along the
\* list (comments added one after the other carry different timestamps), so
\* comments come back in the order they were added whoever wrote them.
C17_CommentsOldestFirst ==
    [][\A i \in Inv, p \in PostIds :
         Returns(i, "get_post_comments", "", p) =>
            LET comments == Res(i)'.comments
            IN  /\ \A j, k \in 1..Len(comments) :
                      j < k => comments[j].created_at < comments[k].created_at
                /\ \A j \in 1..Len(comments) :
                      \E r \in LiveComments(p) :
                          /\ r.interaction_id = comments[j].interaction_id
                          /\ r.user_id = comments[j].user_id
                          /\ r.created_at = comments[j].created_at
                /\ Res(i)'.comments_count = Len(comments)]_vars

\* u2 commented before u1: the list starts with u2's comment although u1's
\* key sorts first
C17_Witness ==
    /\ Ok(1, "get_post_comments")
    /\ Len(Res(1).comments) = 2
    /\ Res(1).comments[1].user_id = "u2"
    /\ Res(1).comments[2].user_id = "u1"
    /\ Res(1).comments[1].created_at < Res(1).comments[2].created_at

\* C18: get_post_likes reports the length of the list it joined (the like
\* records inside the query window whose user has a User record) and, apart
\* from it, the likes_count of the Post record it read; nothing makes the two
\* agree.
InWindow(r, limit) ==
    Cardinality({y \in interactions :
                    /\ y.post_id = r.post_id
                    /\ IdLess(y.interaction_id, r.interaction_id)}) < limit
C18_TwoLikeNumbers ==
    [][\A i \in Inv, p \in PostIds :
         Returns(i, "get_post_likes", "", p) =>
            /\ Res(i)'.likes_count = Len(Res(i)'.likes)
            /\ Res(i)'.likes_count =
                  Cardinality({r \in LiveLikes(p) :
                                  InWindow(r, inv[i].limit) /\ r.user_id \in DOMAIN users})
            /\ Res(i)'.total_likes = posts[p].likes_count]_vars

\* two users like the post and a reader asks for one like: the list has one
\* entry, the counter says two
C18_Witness ==
    /\ Ok(1, "get_post_likes")
    /\ inv[1].limit = 1
    /\ Res(1).likes_count = 1
    /\ Res(1).total_likes = 2
    /\ Cardinality(LiveLikes("p1")) = 2

\* C20: when delete_post(p, owner) returns normally and no other invocation
\* is in flight, the store holds neither the Post record p nor any
\* Interaction record of p.
C20_DeletePostLeavesNothing ==
    [][\A i \in Inv, u \in UserIds, p \in PostIds :
         /\ Returns(i, "delete_post", u, p)
         /\ \A j \in Inv \ {i} : Free(j)
         => /\ p \notin DOMAIN posts'
            /\ \A r \in interactions' : r.post_id # p]_vars

\* the errors the engine's own checks raise
CheckErrors ==
    {[status |-> s, what |-> w] :
        s \in {"Validation", "NotFound"},
        w \in {"required", "too_long", "post", "user", "comment", "author"}}
\* the place of a position in the order of the code
PcRank(pc) ==
    CASE pc \in {"tl_get_user_like", "ac_get_user", "dc_delete"} -> 1
      [] pc \in {"tl_delete_like_find", "tl_new_like", "ac_new_comment", "dc_get_post"} -> 2
      [] pc \in {"tl_delete_item", "tl_save", "ac_save", "dc_update"} -> 3
      [] pc \in {"tl_update", "ac_update"} -> 4
      [] OTHER -> 9
\* every step of an invocation moves it forward, so no store call is made twice
NoCallRepeated(i) == Acts(i) /\ InFlight(i) => PcRank(inv'[i].pc) > PcRank(inv[i].pc)
\* the step is the one on which the invocation in slot i raises
Raises(i) ==
    /\ Acts(i) /\ inv'[i].pc = "done" /\ Res(i)'.status # "ok"
    /\ inv'[i].op \in {"toggle_like", "add_comment", "delete_comment"}

\* C19 as stated: whatever a store call or a check raises inside toggle_like,
\* add_comment or delete_comment is what the caller receives, the step that
\* raises writes nothing, and no store call is made twice.
C19_ErrorsUnmodified ==
    [][\A i \in Inv :
         /\ NoCallRepeated(i)
         /\ Raises(i) =>
              /\ Res(i)' \in StoreErrors \cup CheckErrors
              /\ interactions' = interactions /\ posts' = posts]_vars

\* C19: the errors of the checks and the store errors whose text does not
\* name the store reach the caller as raised; a store error whose text names
\* the store reaches the caller of delete_comment as raised, and the caller
\* of toggle_like or add_comment as a DatabaseError raised in its place; the
\* step that raises writes nothing, the invocation ends there, and no store
\* call is made twice.
C19_ErrorsPropagate ==
    [][\A i \in Inv :
         /\ NoCallRepeated(i)
         /\ Raises(i) =>
              /\ \/ Res(i)' \in CheckErrors
                 \/ /\ Res(i)' \in StoreErrors
                    /\ inv'[i].op = "delete_comment" \/ ~Res(i)'.text_names_store
                 \/ /\ inv'[i].op \in {"toggle_like", "add_comment"}
                    /\ \E e \in StoreErrors :
                          /\ e.text_names_store
                          /\ Res(i)' = [status |-> "DatabaseError", context |-> e]
              /\ interactions' = interactions /\ posts' = posts]_vars

\* add_comment saved its comment, its update_counts raised an error naming
\* the store: the caller holds a DatabaseError, the comment stays, the
\* counter was not touched
C19_Witness ==
    /\ Failed(1, "add_comment", "DatabaseError")
    /\ Res(1).context.status = "EndpointConnectionError"
    /\ Cardinality(LiveComments("p1")) = 1
    /\ posts["p1"].comments_count = 0

\* C21: no two User records share a username and no two share an email,
\* whatever the interleaving of registrations.
C21_UniqueUsers ==
    \A a, b \in DOMAIN users :
        a # b => /\ users[a].username # users[b].username
                 /\ users[a].email # users[b].email

\* C22: a step that changes the stored counters of a post that exists before
\* and after it is the counter update of one invocation on that post, and it
\* adds +1 or -1 to the value the store holds (not to a value read earlier)
\* and leaves every other attribute of the record as it was; the update of a
\* toggle_like changes likes_count only, the update of an add_comment or a
\* delete_comment changes comments_count only; no step of a read aggregation
\* changes a post.
C22_CountersOnlyByAtomicUpdate ==
    [][\A p \in DOMAIN posts \cap DOMAIN posts' :
         posts'[p] # posts[p] =>
            \E i \in Inv, d \in {-1, 1} :
               /\ Acts(i)
               /\ inv[i].post_id = p
               /\ inv[i].pc \in {"tl_update", "ac_update", "dc_update"}
               /\ inv[i].op = "toggle_like" =>
                     posts'[p] = [posts[p] EXCEPT !.likes_count = @ + d]
               /\ inv[i].op \in {"add_comment", "delete_comment"} =>
                     posts'[p] = [posts[p] EXCEPT !.comments_count = @ + d]
               /\ inv[i].op \in {"toggle_like", "add_comment", "delete_comment"}]_vars

\* a like or a comment was counted while a reader of the post held the
\* record it had read before: the store holds 1, the reader still 0, and
\* the other counter is untouched
C22_Witness ==
    \E i, j \in Inv :
       /\ inv[i].op \in {"get_post_likes", "get_post_comments"}
       /\ inv[i].pc \in {"rd_query", "gl_join", "gc_join"}
       /\ TheOne(inv[i].post).likes_count = 0
       /\ TheOne(inv[i].post).comments_count = 0
       /\ \/ Ok(j, "toggle_like") /\ posts["p1"].likes_count = 1
                                   /\ posts["p1"].comments_count = 0
          \/ Ok(j, "add_comment") /\ posts["p1"].comments_count = 1
                                   /\ posts["p1"].likes_count = 0

\* C23: a step changes the Interaction table only by adding or removing
\* whole records, and the save of a toggle_like or an add_comment writes a
\* composite key (post_id, interaction_id) that no live record holds: every
\* record that was there is still there and the table has one record more.
C23_SaveNeverOverwrites ==
    [][\A i \in Inv :
         Acts(i) /\ inv[i].pc \in {"tl_save", "ac_save"} =>
            LET item == TheOne(inv[i].obj)
            IN  /\ \A r \in interactions :
                      ~(r.post_id = item.post_id
                        /\ r.interaction_id = item.interaction_id)
                /\ interactions \subseteq interactions'
                /\ Cardinality(interactions') = Cardinality(interactions) + 1]_vars

\* C24: the steps of one invocation follow the order of the code. The
\* Interaction table is written only at the save / delete step of an
\* invocation and that step leaves the posts alone; the posts are written
\* only at its counter update, which leaves the Interaction table alone; and
\* an invocation reaches its counter update only from its completed write:
\* toggle_like from like.save() or from Interaction.delete_like() (entered
\* after the existence check), add_comment from comment.save(),
\* delete_comment from comment.delete() through the re-read of the post.
C24_StepOrder ==
    [][\A i \in Inv :
         Acts(i) /\ InFlight(i) =>
            /\ interactions' # interactions =>
                  /\ inv[i].pc \in {"tl_save", "tl_delete_item", "ac_save", "dc_delete"}
                  /\ posts' = posts
            /\ posts' # posts =>
                  /\ inv[i].pc \in {"tl_update", "ac_update", "dc_update"}
                  /\ interactions' = interactions
            /\ inv'[i].pc \in {"tl_new_like", "tl_delete_like_find"} =>
                  inv[i].pc = "tl_get_user_like"
            /\ inv'[i].pc = "tl_save" => inv[i].pc = "tl_new_like"
            /\ inv'[i].pc = "tl_delete_item" => inv[i].pc = "tl_delete_like_find"
            /\ inv'[i].pc = "tl_update" =>
                  inv[i].pc \in {"tl_save", "tl_delete_item", "tl_delete_like_find"}
            /\ inv'[i].pc = "ac_update" => inv[i].pc = "ac_save"
            /\ inv'[i].pc = "dc_get_post" => inv[i].pc = "dc_delete"
            /\ inv'[i].pc = "dc_update" => inv[i].pc = "dc_get_post"]_vars

\* a comment was added and then deleted by its author: the record is gone
\* and the counter is back at 0
C24_Witness ==
    /\ \E i, j \in Inv :
          /\ Ok(i, "add_comment")
          /\ Ok(j, "delete_comment")
          /\ inv[j].interaction_id = Res(i).comment.interaction_id
    /\ LiveComments("p1") = {}
    /\ posts["p1"].comments_count = 0

\* C25: the stored counters of a post created with both counters 0 are never
\* negative, whatever the interleaving of toggle_like, add_comment and
\* delete_comment invocations.
C25_CountersNeverNegative ==
    \A p \in DOMAIN posts :
        /\ posts[p].likes_count >= 0
        /\ posts[p].comments_count >= 0

\* C26: when every user runs one invocation at a time (invocations of
\* different users overlapping freely, no store call failing, no post
\* deleted), whenever no invocation is in flight every post's likes_count is
\* its number of live like records and its comments_count its number of live
\* comment records.
C26_NoDriftAcrossUsers ==
    NoneInFlight =>
        \A p \in DOMAIN posts :
            /\ posts[p].likes_count = Cardinality(LiveLikes(p))
            /\ posts[p].comments_count = Cardinality(LiveComments(p))

\* the add_comment calls of u1 and u2 overlapped (both returned the count 1
\* computed from the record each had read): the store counts 2 and holds 2
C26_Witness ==
    /\ NoneInFlight
    /\ \E i, j \in Inv :
          /\ Ok(i, "add_comment") /\ inv[i].user_id = "u1"
          /\ Ok(j, "add_comment") /\ inv[j].user_id = "u2"
          /\ Res(i).comments_count = 1
          /\ Res(j).comments_count = 1
    /\ posts["p1"].comments_count = 2
    /\ Cardinality(LiveComments("p1")) = 2

\* C27: once the Post record of a created post is deleted, no later step
\* creates a Post record for it or adds an Interaction record with its
\* post_id.
C27_DeletedStaysDeleted ==
    [][\A p \in CreatedPosts :
         p \notin DOMAIN posts =>
            /\ p \notin DOMAIN posts'
            /\ \A r \in interactions' \ interactions : r.post_id # p]_vars

\* C28: on the step on which a toggle_like, add_comment or delete_comment
\* raises (run one invocation at a time), the store is as the invocation
\* found it: the record the invocation built is not in the table, the like or
\* comment it found is still there, and the post it read holds the counters
\* it read.
C28_FailureLeavesNoEffect ==
    [][\A i \in Inv :
         Raises(i) /\ InFlight(i) =>
            /\ inv[i].op \in {"toggle_like", "add_comment"} =>
                  inv[i].obj \cap interactions' = {}
            /\ inv[i].op = "delete_comment" => inv[i].obj \subseteq interactions'
            /\ inv[i].existing_like \subseteq interactions'
            /\ inv[i].post # {} => posts'[inv[i].post_id] = TheOne(inv[i].post)]_vars

\* C29: a get_user_like_status(u, p) call always returns (it never raises)
\* and changes no record; when its query failed (the failure is logged) it
\* returns false, whatever the table holds; when the query answered it
\* returns true exactly when the table holds a record of post p whose
\* interaction_id begins with like#u#.
C29_LikeStatus ==
    [][\A i \in Inv :
         Acts(i) /\ inv'[i].op = "get_user_like_status" =>
            /\ inv'[i].pc = "done"
            /\ Res(i)'.status = "ok"
            /\ users' = users /\ posts' = posts /\ interactions' = interactions
            /\ Res(i)'.logged # {} => Res(i)'.value = FALSE
            /\ Res(i)'.logged = {} =>
                  Res(i)'.value =
                     (\E r \in interactions :
                         /\ r.post_id = inv'[i].post_id
                         /\ BeginsWith(r.interaction_id,
                                       <<"like", inv'[i].user_id>>))]_vars

\* u1 likes p1, the status query of (u1, p1) failed and false came back
C29_Witness ==
    /\ LikesOf("p1", "u1") # {}
    /\ \E i \in Inv :
          /\ Ok(i, "get_user_like_status")
          /\ inv[i].user_id = "u1" /\ inv[i].post_id = "p1"
          /\ Res(i).logged # {}
          /\ ~Res(i).value

\* C30: a get_post_likes(p, limit) that returns while every liker of p has
\* a User record returns min(limit, number of live like records of p) likes,
\* and a get_post_comments(p, limit) that returns while every commenter has
\* a User record returns min(limit, number of live comment records of p)
\* comments, whatever other records p holds.
C30_ReadsCompleteUpToLimit ==
    [][\A i \in Inv :
         Acts(i) /\ inv'[i].pc = "done" /\ Res(i)'.status = "ok" =>
            LET p == inv'[i].post_id
                limit == inv'[i].limit
                UpTo(n) == IF n < limit THEN n ELSE limit
            IN  /\ /\ inv'[i].op = "get_post_likes"
                   /\ \A r \in LiveLikes(p) : r.user_id \in DOMAIN users
                   => Len(Res(i)'.likes) = UpTo(Cardinality(LiveLikes(p)))
                /\ /\ inv'[i].op = "get_post_comments"
                   /\ \A r \in LiveComments(p) : r.user_id \in DOMAIN users
                   => Len(Res(i)'.comments) = UpTo(Cardinality(LiveComments(p)))]_vars

TypeOK ==
    /\ DOMAIN users \subseteq UserIds \cup NewUserIds
    /\ DOMAIN posts \subseteq PostIds
    /\ now \in 0..MaxSeqTime
====
